---- MODULE Spec2Model ----
(***************************************************************************)
(* A model of helper_functions.py: the prompt payload assembly             *)
(* (batch_data_create), the image normalisation (preprocess/scale_image),  *)
(* the image annotation (add_red_circle), and the batch orchestration      *)
(* (build_run_batch with if_tbl_exists, write_request and                  *)
(* create_batch_prediction_job).  The functions run on one thread; each    *)
(* one is followed statement by statement by its own program counter.      *)
(***************************************************************************)
EXTENDS Integers, Sequences, FiniteSets, TLC

VARIABLES
  \* batch_data_create
  bdc_pc,            \* "idle" | "loop" | "returned" | "raised"
  bdc_args,          \* [stat_prompt, dyna_prompt, TEMPERATURE, TOP_P]
  bdc_i,             \* the loop index i of line 239 (1-based here)
  dyna_prompt_part,  \* the list built by lines 238-243
  bdc_result,        \* what the call gave its caller
  bdc_first,         \* the first completed call, kept for comparison
  \* preprocess.scale_image
  sc_pc,             \* "get_limits" | "clip" | "scale" | "return" | "returned"
  sc_input,          \* the channel as passed in (kept for the properties)
  image,             \* the local variable image, a row of pixels
  vmin, vmax,        \* line 90
  sc_warnings,       \* the RuntimeWarnings numpy issued
  \* add_red_circle
  arc_pc,            \* the statement add_red_circle is at
  arc_image,         \* what the caller passed as image
  arc_fig,           \* the local variable fig (a figure number)
  arc_exc,           \* the exception the call raised, if any
  arc_calls,         \* calls made so far
  figures,           \* the figures pyplot keeps open (its registry)
  has_tostring_rgb,  \* whether the installed canvas class has tostring_rgb
  \* build_run_batch
  pc,                \* the statement build_run_batch is at
  batch_index,       \* the argument batch_index, a list of index numbers
  batch_df,          \* the requests built so far (lines 337-342)
  tables,            \* the warehouse: what each table holds, or Absent
  entry_table,       \* what the input table held when the call began
  request_json,      \* whether the file request.json exists
  response,          \* what create_batch_prediction_job returned
  fault,             \* the failure a collaborator reported, if any
  run_result,        \* what build_run_batch gave its caller
  trace,             \* the collaborator calls made, in order
  missing_at_cleanup \* the artifacts found absent by the cleanup

bdcVars == <<bdc_pc, bdc_args, bdc_i, dyna_prompt_part, bdc_result, bdc_first>>

scVars == <<sc_pc, sc_input, image, vmin, vmax, sc_warnings>>

arcVars == <<arc_pc, arc_image, arc_fig, arc_exc, arc_calls, figures, has_tostring_rgb>>

brbVars == <<pc, batch_index, batch_df, tables, entry_table, request_json, response,
             fault, run_result, trace, missing_at_cleanup>>

vars == <<bdcVars, scVars, arcVars, brbVars>>

(***************************************************************************)
(* batch_data_create                                                       *)
(***************************************************************************)

\* Longest dyna_prompt list tried.
MaxParts == 3
\* Longest dyna_prompt list tried when two calls are compared.
MaxPartsRepeat == 2

NoValue == "none"

\* The elements a caller may put in dyna_prompt: text, an image Part (as
\* create_ex builds them), an integer, a dict, and an object of another
\* class that happens to have a to_dict method (a pandas Series).
TextElements == { [type |-> "str", val |-> "hello"], [type |-> "str", val |-> "world"] }
ImageElements == { [type |-> "Part", val |-> "png0"], [type |-> "Part", val |-> "png1"] }
OtherElements == { [type |-> "int", val |-> "42"],
                   [type |-> "dict", val |-> "{}"],
                   [type |-> "Series", val |-> "s0"] }
Elements == TextElements \cup ImageElements \cup OtherElements

StatPrompts == { "classify", "explain" }
Temperatures == { "0.2", "0.9" }
TopPs == { "0.95" }

RECURSIVE SeqsUpTo(_, _)
SeqsUpTo(S, n) ==
  IF n = 0 THEN { <<>> }
  ELSE LET shorter == SeqsUpTo(S, n - 1)
       IN  shorter \cup { Append(s, e) : s \in { t \in shorter : Len(t) = n - 1 }, e \in S }

BdcArgs(elements, maxLen) ==
  [ stat_prompt : StatPrompts,
    dyna_prompt : SeqsUpTo(elements, maxLen),
    TEMPERATURE : Temperatures,
    TOP_P       : TopPs ]

\* base64 of the image bytes, as Part.to_dict() encodes inline data.
Base64(bytes) ==
  CASE bytes = "png0" -> "cG5nMA=="
    [] bytes = "png1" -> "cG5nMQ=="
    [] OTHER          -> "czA="

\* Whether an object of this class has a to_dict attribute (line 243).
HasToDict(e) == e.type \in { "Part", "Series" }

\* elem.to_dict() of line 243.
ToDict(e) ==
  IF e.type = "Part"
  THEN [ inline_data |-> [ mime_type |-> "image/png", data |-> Base64(e.val) ] ]
  ELSE [ index |-> e.val ]

\* Line 240: type(dyna_prompt[i]) == str.
IsStr(e) == e.type = "str"

\* Lines 241 and 243: the list grows at its end.
AppendPart_Prepend(parts, part) == <<part>> \o parts

AppendPart(parts, part) == Append(parts, part)

\* Line 238: the list starts empty in every call.
FreshParts_Stale(previous) == previous

FreshParts(previous) == << >>

\* The dict of lines 246-284.
MaxOutputTokens == 2024

SafetySettings ==
  << [ category |-> "HARM_CATEGORY_HATE_SPEECH",       threshold |-> "BLOCK_NONE" ],
     [ category |-> "HARM_CATEGORY_DANGEROUS_CONTENT", threshold |-> "BLOCK_NONE" ],
     [ category |-> "HARM_CATEGORY_SEXUALLY_EXPLICIT", threshold |-> "BLOCK_NONE" ],
     [ category |-> "HARM_CATEGORY_HARASSMENT",        threshold |-> "BLOCK_NONE" ] >>

Payload(parts, args) ==
  [ contents           |-> << [ role |-> "user", parts |-> parts ] >>,
    system_instruction |-> [ parts |-> << [ text |-> args.stat_prompt ] >> ],
    generationConfig   |-> [ maxOutputTokens  |-> MaxOutputTokens,
                             temperature      |-> args.TEMPERATURE,
                             topP             |-> args.TOP_P,
                             responseMimeType |-> "application/json" ],
    safetySettings     |-> SafetySettings ]

\* json.dumps of line 245, as the sequence of the text's pieces: keys in the
\* dict's insertion order, ", " and ": " separators.
RECURSIVE Joined(_, _)
Joined(items, sep) ==
  IF Len(items) = 0 THEN << >>
  ELSE IF Len(items) = 1 THEN items[1]
  ELSE items[1] \o <<sep>> \o Joined(Tail(items), sep)

DumpStr(s) == << "\"", s, "\"" >>

DumpPart(p) ==
  IF "text" \in DOMAIN p
  THEN << "{", "\"text\": " >> \o DumpStr(p.text) \o << "}" >>
  ELSE IF "inline_data" \in DOMAIN p
  THEN << "{", "\"inline_data\": ", "{", "\"mime_type\": " >> \o DumpStr(p.inline_data.mime_type)
       \o << ", ", "\"data\": " >> \o DumpStr(p.inline_data.data) \o << "}", "}" >>
  ELSE << "{", "\"index\": " >> \o DumpStr(p.index) \o << "}" >>

DumpSafety(s) ==
  << "{", "\"category\": " >> \o DumpStr(s.category)
  \o << ", ", "\"threshold\": " >> \o DumpStr(s.threshold) \o << "}" >>

JsonDumps(d) ==
  << "{", "\"contents\": ", "[", "{", "\"role\": " >> \o DumpStr(d.contents[1].role)
  \o << ", ", "\"parts\": ", "[" >>
  \o Joined([ k \in 1..Len(d.contents[1].parts) |-> DumpPart(d.contents[1].parts[k]) ], ", ")
  \o << "]", "}", "]", ", ", "\"system_instruction\": ", "{", "\"parts\": ", "[", "{", "\"text\": " >>
  \o DumpStr(d.system_instruction.parts[1].text)
  \o << "}", "]", "}", ", ", "\"generationConfig\": ", "{", "\"maxOutputTokens\": ", "2024",
        ", ", "\"temperature\": ", d.generationConfig.temperature,
        ", ", "\"topP\": ", d.generationConfig.topP,
        ", ", "\"responseMimeType\": " >> \o DumpStr(d.generationConfig.responseMimeType)
  \o << "}", ", ", "\"safetySettings\": ", "[" >>
  \o Joined([ k \in 1..Len(d.safetySettings) |-> DumpSafety(d.safetySettings[k]) ], ", ")
  \o << "]", "}" >>

NoResult == [ status |-> "none", exc |-> NoValue, payload |-> NoValue, json |-> << >> ]

BdcInit ==
  /\ bdc_pc = "idle"
  /\ bdc_args = [ stat_prompt |-> "classify", dyna_prompt |-> << >>,
                  TEMPERATURE |-> "0.2", TOP_P |-> "0.95" ]
  /\ bdc_i = 1
  /\ dyna_prompt_part = << >>
  /\ bdc_result = NoResult
  /\ bdc_first = [ args |-> NoValue, result |-> NoResult ]

\* The caller invokes batch_data_create(stat_prompt, dyna_prompt, TEMPERATURE,
\* TOP_P); line 238 runs.  The first call to have completed is kept in
\* bdc_first, for later calls to be compared with.
BdcCall(args) ==
  /\ bdc_pc \in { "idle", "returned", "raised" }
  /\ bdc_first' = IF bdc_pc # "idle" /\ bdc_first.result.status = "none"
                  THEN [ args |-> bdc_args, result |-> bdc_result ]
                  ELSE bdc_first
  /\ bdc_pc' = "loop"
  /\ bdc_args' = args
  /\ bdc_i' = 1
  /\ dyna_prompt_part' = FreshParts(dyna_prompt_part)
  /\ bdc_result' = NoResult

\* Lines 240-241: a str element becomes {"text": element}.
BdcLoopStr ==
  /\ bdc_pc = "loop"
  /\ bdc_i <= Len(bdc_args.dyna_prompt)
  /\ IsStr(bdc_args.dyna_prompt[bdc_i])
  /\ dyna_prompt_part' = AppendPart(dyna_prompt_part, [ text |-> bdc_args.dyna_prompt[bdc_i].val ])
  /\ bdc_i' = bdc_i + 1
  /\ UNCHANGED <<bdc_pc, bdc_args, bdc_result, bdc_first>>

\* Lines 242-243: any other element is asked for its to_dict().
BdcLoopToDict ==
  /\ bdc_pc = "loop"
  /\ bdc_i <= Len(bdc_args.dyna_prompt)
  /\ ~IsStr(bdc_args.dyna_prompt[bdc_i])
  /\ HasToDict(bdc_args.dyna_prompt[bdc_i])
  /\ dyna_prompt_part' = AppendPart(dyna_prompt_part, ToDict(bdc_args.dyna_prompt[bdc_i]))
  /\ bdc_i' = bdc_i + 1
  /\ UNCHANGED <<bdc_pc, bdc_args, bdc_result, bdc_first>>

\* Line 243 on an object without to_dict: Python raises AttributeError, which
\* nothing in the function catches.
BdcLoopRaise ==
  /\ bdc_pc = "loop"
  /\ bdc_i <= Len(bdc_args.dyna_prompt)
  /\ ~IsStr(bdc_args.dyna_prompt[bdc_i])
  /\ ~HasToDict(bdc_args.dyna_prompt[bdc_i])
  /\ bdc_pc' = "raised"
  /\ bdc_result' = [ status |-> "error", exc |-> "AttributeError",
                     payload |-> NoValue, json |-> << >> ]
  /\ UNCHANGED <<bdc_args, bdc_i, dyna_prompt_part, bdc_first>>

\* Lines 245-284: the dict is built and serialised, and the text returned.
BdcReturn ==
  /\ bdc_pc = "loop"
  /\ bdc_i > Len(bdc_args.dyna_prompt)
  /\ bdc_pc' = "returned"
  /\ bdc_result' = [ status |-> "ok", exc |-> NoValue,
                     payload |-> Payload(dyna_prompt_part, bdc_args),
                     json |-> JsonDumps(Payload(dyna_prompt_part, bdc_args)) ]
  /\ UNCHANGED <<bdc_args, bdc_i, dyna_prompt_part, bdc_first>>

(***************************************************************************)
(* preprocess / scale_image                                                *)
(***************************************************************************)

\* Most pixels a channel has here.
MaxPixelCount == 3

\* The pixel values tried (whole numbers, exact in floating point).
PixelValues == { 0, 1, 5, 11 }

\* numpy computes in binary floating point, rounding each operation's result
\* to the nearest representable value, ties to even.  Precision is the
\* number of significand bits of the format modelled (float32 has 24,
\* float64 has 53); a finite value is the fraction num/den.
Precision == 9

RECURSIVE Pow2(_)
Pow2(k) == IF k = 0 THEN 1 ELSE 2 * Pow2(k - 1)

RECURSIVE ExponentUp(_, _, _)
ExponentUp(n, d, e) == IF d * Pow2(e + 1) <= n THEN ExponentUp(n, d, e + 1) ELSE e

RECURSIVE ExponentDown(_, _, _)
ExponentDown(n, d, k) == IF n * Pow2(k) >= d THEN k ELSE ExponentDown(n, d, k + 1)

RoundHalfEven(a, b) ==
  LET q == a \div b
      r == a % b
  IN  IF 2 * r < b THEN q
      ELSE IF 2 * r > b THEN q + 1
      ELSE IF q % 2 = 0 THEN q ELSE q + 1

Finite(n, d) == [ kind |-> "finite", num |-> n, den |-> d ]
NaN == [ kind |-> "nan", num |-> 0, den |-> 1 ]
Inf == [ kind |-> "inf", num |-> 1, den |-> 1 ]

\* The representable value nearest to n/d, for n >= 0 and d > 0.
FloatRound(n, d) ==
  IF n = 0 THEN Finite(0, 1)
  ELSE IF n >= d
  THEN LET shift == ExponentUp(n, d, 0) - Precision + 1
       IN  IF shift >= 0
           THEN Finite(RoundHalfEven(n, d * Pow2(shift)) * Pow2(shift), 1)
           ELSE Finite(RoundHalfEven(n * Pow2(-shift), d), Pow2(-shift))
  ELSE LET up == ExponentDown(n, d, 1) + Precision - 1
       IN  Finite(RoundHalfEven(n * Pow2(up), d), Pow2(up))

\* x / b in floating point: 0/0 is nan under the warning "invalid value
\* encountered in divide", x/0 is inf under "divide by zero encountered".
FloatDivide(x, b) ==
  IF b = 0 THEN (IF x.num = 0 THEN NaN ELSE Inf)
  ELSE FloatRound(x.num, x.den * b)

DivideWarnings(x, b) ==
  IF b # 0 THEN { }
  ELSE IF x.num = 0 THEN { "invalid value encountered in divide" }
  ELSE { "divide by zero encountered in divide" }

SeqMin(s) == CHOOSE m \in { s[k] : k \in 1..Len(s) } : \A k \in 1..Len(s) : m <= s[k]
SeqMax(s) == CHOOSE m \in { s[k] : k \in 1..Len(s) } : \A k \in 1..Len(s) : m >= s[k]

\* ZScaleInterval().get_limits(image) of lines 87 and 90.  With fewer samples
\* than its min_npixels (5) the interval fits no line and gives the least
\* and the greatest sample; with more it gives limits between them.
MinNPixels == 5

GetLimits(img) ==
  IF Len(img) < MinNPixels
  THEN { << SeqMin(img), SeqMax(img) >> }
  ELSE { << lo, hi >> \in (SeqMin(img)..SeqMax(img)) \X (SeqMin(img)..SeqMax(img)) : lo <= hi }

\* np.clip(image, vmin, vmax) of line 91, one pixel.
ClipPixel_Unclipped(x, lo, hi) == x

ClipPixel(x, lo, hi) == IF x < lo THEN lo ELSE IF x > hi THEN hi ELSE x

\* 255 * (image - vmin) / (vmax - vmin) of line 92, one pixel: the
\* subtraction, then the product, then the quotient, each rounded.
ScalePixel(x, lo, hi) == FloatDivide(FloatRound(255 * (x - lo), 1), hi - lo)

ScInit ==
  /\ sc_pc = "get_limits"
  /\ sc_input \in SeqsUpTo(PixelValues, MaxPixelCount) \ { << >> }
  /\ image = sc_input
  /\ vmin = 0
  /\ vmax = 0
  /\ sc_warnings = { }

\* Line 90.
ScGetLimits ==
  /\ sc_pc = "get_limits"
  /\ \E limits \in GetLimits(image) :
       /\ vmin' = limits[1]
       /\ vmax' = limits[2]
  /\ sc_pc' = "clip"
  /\ UNCHANGED <<sc_input, image, sc_warnings>>

\* Line 91.
ScClip ==
  /\ sc_pc = "clip"
  /\ image' = [ k \in 1..Len(image) |-> ClipPixel(image[k], vmin, vmax) ]
  /\ sc_pc' = "scale"
  /\ UNCHANGED <<sc_input, vmin, vmax, sc_warnings>>

\* Line 92.
ScScale ==
  /\ sc_pc = "scale"
  /\ image' = [ k \in 1..Len(image) |-> ScalePixel(image[k], vmin, vmax) ]
  /\ sc_warnings' = UNION { DivideWarnings(FloatRound(255 * (image[k] - vmin), 1), vmax - vmin) :
                            k \in 1..Len(image) }
  /\ sc_pc' = "return"
  /\ UNCHANGED <<sc_input, vmin, vmax>>

\* Line 93.
ScReturn ==
  /\ sc_pc = "return"
  /\ sc_pc' = "returned"
  /\ UNCHANGED <<sc_input, image, vmin, vmax, sc_warnings>>

(***************************************************************************)
(* add_red_circle                                                          *)
(***************************************************************************)

\* Most calls of add_red_circle in one run.
MaxCalls == 4

\* What a caller may pass: a 2-D array (what preprocess returns), a 1-D
\* array, which imshow rejects, a nested list, which has no shape attribute.
ImageKinds == { "array2d", "array1d", "list2d" }

\* plt.subplots() of line 425 opens a figure numbered after the open ones.
NewFigure(open) ==
  IF open = { } THEN 1
  ELSE 1 + CHOOSE m \in open : \A f \in open : m >= f

\* The statement after each statement of lines 425-441.
ArcAfter(stmt) ==
  CASE stmt = "imshow"       -> "shape"
    [] stmt = "shape"        -> "add_patch"
    [] stmt = "add_patch"    -> "draw"
    [] stmt = "draw"         -> "tostring_rgb"
    [] stmt = "tostring_rgb" -> "close"
    [] stmt = "close"        -> "return"
    [] OTHER               -> "returned"

\* The exception a statement raises on this input, or NoValue: imshow's
\* TypeError for data that is no image (line 426), AttributeError for
\* image.shape of a list (line 427) and for a canvas whose class has no
\* tostring_rgb (line 436).
ArcRaises(stmt, img, tostring) ==
  CASE stmt = "imshow" /\ img = "array1d"     -> "TypeError"
    [] stmt = "shape" /\ img = "list2d"       -> "AttributeError"
    [] stmt = "tostring_rgb" /\ ~tostring     -> "AttributeError"
    [] OTHER                                -> NoValue

ArcInit ==
  /\ arc_pc = "idle"
  /\ arc_image = "array2d"
  /\ arc_fig = 0
  /\ arc_exc = NoValue
  /\ arc_calls = 0
  /\ figures = { }
  /\ has_tostring_rgb \in BOOLEAN

\* A call, and line 425: fig, ax = plt.subplots().
ArcCall(img) ==
  /\ arc_pc \in { "idle", "returned", "raised" }
  /\ arc_calls < MaxCalls
  /\ arc_calls' = arc_calls + 1
  /\ arc_image' = img
  /\ arc_fig' = NewFigure(figures)
  /\ figures' = figures \cup { NewFigure(figures) }
  /\ arc_exc' = NoValue
  /\ arc_pc' = "imshow"
  /\ UNCHANGED has_tostring_rgb

\* Lines 426-437, one statement at a time: none touches the registry.
ArcStatement ==
  /\ arc_pc \in { "imshow", "shape", "add_patch", "draw", "tostring_rgb" }
  /\ ArcRaises(arc_pc, arc_image, has_tostring_rgb) = NoValue
  /\ arc_pc' = ArcAfter(arc_pc)
  /\ UNCHANGED <<arc_image, arc_fig, arc_exc, arc_calls, figures, has_tostring_rgb>>

\* A statement raises: the exception leaves the function at once, there
\* being no try statement in it.
ArcRaise ==
  /\ arc_pc \in { "imshow", "shape", "add_patch", "draw", "tostring_rgb" }
  /\ ArcRaises(arc_pc, arc_image, has_tostring_rgb) # NoValue
  /\ arc_exc' = ArcRaises(arc_pc, arc_image, has_tostring_rgb)
  /\ arc_pc' = "raised"
  /\ UNCHANGED <<arc_image, arc_fig, arc_calls, figures, has_tostring_rgb>>

\* Line 439: plt.close(fig).
ArcClose ==
  /\ arc_pc = "close"
  /\ figures' = figures \ { arc_fig }
  /\ arc_pc' = ArcAfter(arc_pc)
  /\ UNCHANGED <<arc_image, arc_fig, arc_exc, arc_calls, has_tostring_rgb>>

\* Line 441.
ArcReturn ==
  /\ arc_pc = "return"
  /\ arc_pc' = ArcAfter(arc_pc)
  /\ UNCHANGED <<arc_image, arc_fig, arc_exc, arc_calls, figures, has_tostring_rgb>>

(***************************************************************************)
(* build_run_batch, with if_tbl_exists, write_request and                  *)
(* create_batch_prediction_job                                             *)
(***************************************************************************)

\* Longest batch_index tried.
MaxBatch == 2

Absent == "absent"

NoFault == [ at |-> NoValue, exc |-> NoValue ]

\* The statement after each statement, in the order of lines 334-390.
After_NoLoadWait(step) ==
  CASE step = "get_table"     -> "build"
    [] step = "create_table"  -> "build"
    [] step = "build"         -> "load"
    [] step = "load"          -> "write_request"
    [] step = "load_wait"     -> "write_request"
    [] step = "write_request" -> "post"
    [] step = "post"          -> "job_handle"
    [] step = "job_handle"    -> "wait"
    [] step = "wait"          -> "query"
    [] step = "query"         -> "query_wait"
    [] step = "query_wait"    -> "delete_output"
    [] step = "delete_output" -> "delete_input"
    [] step = "delete_input"  -> "remove_file"
    [] step = "remove_file"   -> "download"
    [] OTHER                  -> "returned"

After(step) ==
  CASE step = "get_table"     -> "build"
    [] step = "create_table"  -> "build"
    [] step = "build"         -> "load"
    [] step = "load"          -> "load_wait"
    [] step = "load_wait"     -> "write_request"
    [] step = "write_request" -> "post"
    [] step = "post"          -> "job_handle"
    [] step = "job_handle"    -> "wait"
    [] step = "wait"          -> "query"
    [] step = "query"         -> "query_wait"
    [] step = "query_wait"    -> "delete_output"
    [] step = "delete_output" -> "delete_input"
    [] step = "delete_input"  -> "remove_file"
    [] step = "remove_file"   -> "download"
    [] OTHER                  -> "returned"

\* The statements that call a cloud collaborator, each with the exception
\* the collaborator raises when the call fails: the BigQuery client
\* (get_table, create_table, load, query, delete_table), requests.post
\* (a network error), BatchPredictionJob (the lookup of the job, and
\* wait_for_completion on a job that ended FAILED).
CloudFailure(step) ==
  CASE step = "post"       -> "ConnectionError"
    [] step = "wait"       -> "RuntimeError: Job failed"
    [] step = "load_wait"  -> "BadRequest"
    [] step = "query_wait" -> "BadRequest"
    [] OTHER               -> "ServiceUnavailable"

CloudSteps == { "get_table", "create_table", "load", "load_wait", "post", "job_handle",
                "wait", "query", "query_wait", "delete_output", "delete_input", "download" }

\* bq_client.delete_table(name, not_found_ok=...) of lines 378-379: the
\* exception raised (or NoValue) and the warehouse afterwards.
NotFoundOk_Strict == FALSE

NotFoundOk == TRUE

DeleteTable(tbls, name, not_found_ok) ==
  IF tbls[name] = Absent /\ ~not_found_ok
  THEN [ exc |-> "NotFound", tables |-> tbls ]
  ELSE [ exc |-> NoValue, tables |-> [ tbls EXCEPT ![name] = Absent ] ]

\* if_tbl_exists, lines 217-221: what the call does to the warehouse when
\* get_table finds the table (found) or raises NotFound.
IfTblExists_NoCreate(tbls, name, found) == tbls

IfTblExists(tbls, name, found) ==
  IF found THEN tbls ELSE [ tbls EXCEPT ![name] = "empty" ]

BrbInit ==
  /\ pc = "get_table"
  /\ batch_index \in SeqsUpTo({ 7, 8 }, MaxBatch)
  /\ batch_df = << >>
  /\ entry_table \in { Absent, "earlier run" }
  /\ \E result \in { Absent, "earlier run" } :
       tables = [ input |-> entry_table, output |-> Absent, result |-> result ]
  /\ request_json \in BOOLEAN
  /\ response = NoValue
  /\ fault = NoFault
  /\ run_result = [ status |-> "none", exc |-> NoValue, rows |-> NoValue ]
  /\ trace = << >>
  /\ missing_at_cleanup = { }

Raise(exc) ==
  /\ pc' = "raised"
  /\ run_result' = [ status |-> "error", exc |-> exc, rows |-> NoValue ]

\* Lines 217-219: get_table finds the table, if_tbl_exists returns True.
BrbGetTableFound ==
  /\ pc = "get_table"
  /\ tables.input # Absent
  /\ tables' = IfTblExists(tables, "input", TRUE)
  /\ trace' = trace \o << "get_table", "if_tbl_exists returned" >>
  /\ pc' = After(pc)
  /\ UNCHANGED <<batch_index, batch_df, entry_table, request_json, response, fault,
                 run_result, missing_at_cleanup>>

\* Lines 217-221: get_table raises NotFound, the handler creates the table.
BrbGetTableNotFound ==
  /\ pc = "get_table"
  /\ tables.input = Absent
  /\ trace' = Append(trace, "get_table")
  /\ pc' = "create_table"
  /\ UNCHANGED <<batch_index, batch_df, tables, entry_table, request_json, response, fault,
                 run_result, missing_at_cleanup>>

BrbCreateTable ==
  /\ pc = "create_table"
  /\ tables' = IfTblExists(tables, "input", FALSE)
  /\ trace' = trace \o << "create_table", "if_tbl_exists returned" >>
  /\ pc' = After(pc)
  /\ UNCHANGED <<batch_index, batch_df, entry_table, request_json, response, fault,
                 run_result, missing_at_cleanup>>

\* Lines 339-342: one more request, made by batch_data_create, joins batch_df.
BrbBuildRequest ==
  /\ pc = "build"
  /\ Len(batch_df) < Len(batch_index)
  /\ batch_df' = Append(batch_df, batch_index[Len(batch_df) + 1])
  /\ UNCHANGED <<pc, batch_index, tables, entry_table, request_json, response, fault,
                 run_result, trace, missing_at_cleanup>>

\* Line 339: batch_index is exhausted, the loop ends.
BrbBuildEnd ==
  /\ pc = "build"
  /\ Len(batch_df) = Len(batch_index)
  /\ pc' = After(pc)
  /\ UNCHANGED <<batch_index, batch_df, tables, entry_table, request_json, response, fault,
                 run_result, trace, missing_at_cleanup>>

\* Lines 344-349: load_table_from_dataframe starts the load job.
BrbLoadStart ==
  /\ pc = "load"
  /\ trace' = Append(trace, "load started")
  /\ pc' = After(pc)
  /\ UNCHANGED <<batch_index, batch_df, tables, entry_table, request_json, response, fault,
                 run_result, missing_at_cleanup>>

\* Line 350: job.result() returns once the load has replaced the table's rows
\* (WRITE_TRUNCATE).
BrbLoadWait ==
  /\ pc = "load_wait"
  /\ tables' = [ tables EXCEPT !.input = "requests" ]
  /\ trace' = Append(trace, "load done")
  /\ pc' = After(pc)
  /\ UNCHANGED <<batch_index, batch_df, entry_table, request_json, response, fault,
                 run_result, missing_at_cleanup>>

\* Lines 353-354 and 189-205: request.json is written.
BrbWriteRequest ==
  /\ pc = "write_request"
  /\ request_json' = TRUE
  /\ pc' = After(pc)
  /\ UNCHANGED <<batch_index, batch_df, tables, entry_table, response, fault, run_result,
                 trace, missing_at_cleanup>>

\* Lines 157-175: the POST is accepted, response.json() is the job.
BrbPostAccepted ==
  /\ pc = "post"
  /\ response' = "job"
  /\ trace' = Append(trace, "job submitted")
  /\ pc' = After(pc)
  /\ UNCHANGED <<batch_index, batch_df, tables, entry_table, request_json, fault, run_result,
                 missing_at_cleanup>>

\* Lines 173-175: the service rejects the request; requests.post returns the
\* error response, whose status nothing checks, and response.json() is the
\* error body: create_batch_prediction_job returns it as it would a job.
BrbPostRejected ==
  /\ pc = "post"
  /\ response' = "error body"
  /\ fault' = [ at |-> "post", exc |-> "HTTP 403 PERMISSION_DENIED" ]
  /\ trace' = Append(trace, "job rejected")
  /\ pc' = After(pc)
  /\ UNCHANGED <<batch_index, batch_df, tables, entry_table, request_json, run_result,
                 missing_at_cleanup>>

\* Line 359: response["name"] and the BatchPredictionJob made of it.  An
\* error body has no "name": the subscript raises KeyError.
BrbJobHandle ==
  /\ pc = "job_handle"
  /\ IF response = "job"
     THEN /\ pc' = After(pc)
          /\ UNCHANGED run_result
     ELSE Raise("KeyError")
  /\ UNCHANGED <<batch_index, batch_df, tables, entry_table, request_json, response, fault,
                 trace, missing_at_cleanup>>

\* Line 360: wait_for_completion returns, the job having SUCCEEDED and
\* written the output table.
BrbWaitSucceeded ==
  /\ pc = "wait"
  /\ tables' = [ tables EXCEPT !.output = "predictions" ]
  /\ trace' = Append(trace, "job done")
  /\ pc' = After(pc)
  /\ UNCHANGED <<batch_index, batch_df, entry_table, request_json, response, fault,
                 run_result, missing_at_cleanup>>

\* Line 374: the query is sent.
BrbQueryStart ==
  /\ pc = "query"
  /\ trace' = Append(trace, "query started")
  /\ pc' = After(pc)
  /\ UNCHANGED <<batch_index, batch_df, tables, entry_table, request_json, response, fault,
                 run_result, missing_at_cleanup>>

\* Line 375: the query has made the result table.
BrbQueryResult ==
  /\ pc = "query_wait"
  /\ tables.output # Absent
  /\ tables' = [ tables EXCEPT !.result = "joined" ]
  /\ trace' = Append(trace, "result table created")
  /\ pc' = After(pc)
  /\ UNCHANGED <<batch_index, batch_df, entry_table, request_json, response, fault,
                 run_result, missing_at_cleanup>>

\* A cloud collaborator's call fails: the exception it raises leaves
\* build_run_batch, which has no handler for it.
BrbCloudFailure ==
  /\ pc \in CloudSteps
  /\ fault = NoFault
  /\ fault' = [ at |-> pc, exc |-> CloudFailure(pc) ]
  /\ Raise(CloudFailure(pc))
  /\ trace' = Append(trace, "failed")
  /\ UNCHANGED <<batch_index, batch_df, tables, entry_table, request_json, response,
                 missing_at_cleanup>>

\* The warehouse and the working directory are shared: something else
\* removes an interim table or request.json before the cleanup reaches it.
ExternalRemoval ==
  /\ pc \in { "delete_output", "delete_input", "remove_file" }
  /\ \/ /\ pc = "delete_output"
        /\ tables.output # Absent
        /\ tables' = [ tables EXCEPT !.output = Absent ]
        /\ UNCHANGED request_json
     \/ /\ pc \in { "delete_output", "delete_input" }
        /\ tables.input # Absent
        /\ tables' = [ tables EXCEPT !.input = Absent ]
        /\ UNCHANGED request_json
     \/ /\ request_json
        /\ request_json' = FALSE
        /\ UNCHANGED tables
  /\ UNCHANGED <<pc, batch_index, batch_df, entry_table, response, fault, run_result, trace,
                 missing_at_cleanup>>

\* Lines 378 and 379: delete_table(..., not_found_ok=True).
BrbDeleteTable(step, name) ==
  /\ pc = step
  /\ LET done == DeleteTable(tables, name, NotFoundOk)
     IN  /\ tables' = done.tables
         /\ IF done.exc = NoValue
            THEN /\ pc' = After(pc)
                 /\ UNCHANGED run_result
            ELSE Raise(done.exc)
  /\ missing_at_cleanup' = IF tables[name] = Absent
                           THEN missing_at_cleanup \cup { name }
                           ELSE missing_at_cleanup
  /\ trace' = Append(trace, step)
  /\ UNCHANGED <<batch_index, batch_df, entry_table, request_json, response, fault>>

BrbDeleteOutput == BrbDeleteTable("delete_output", "output")

BrbDeleteInput == BrbDeleteTable("delete_input", "input")

\* Lines 381-384: os.remove("request.json"), FileNotFoundError passed over.
BrbRemoveFile ==
  /\ pc = "remove_file"
  /\ request_json' = FALSE
  /\ missing_at_cleanup' = IF request_json THEN missing_at_cleanup
                           ELSE missing_at_cleanup \cup { "request.json" }
  /\ trace' = Append(trace, "remove_file")
  /\ pc' = After(pc)
  /\ UNCHANGED <<batch_index, batch_df, tables, entry_table, response, fault, run_result>>

\* Lines 386-390: the result table is downloaded and returned.
BrbDownload ==
  /\ pc = "download"
  /\ tables.result # Absent
  /\ run_result' = [ status |-> "ok", exc |-> NoValue, rows |-> tables.result ]
  /\ trace' = Append(trace, "download")
  /\ pc' = After(pc)
  /\ UNCHANGED <<batch_index, batch_df, tables, entry_table, request_json, response, fault,
                 missing_at_cleanup>>

\* The other functions' variables, at rest while one function is followed.
ScIdle ==
  /\ sc_pc = "idle"
  /\ sc_input = << >>
  /\ image = << >>
  /\ vmin = 0
  /\ vmax = 0
  /\ sc_warnings = { }

ArcIdle ==
  /\ arc_pc = "idle"
  /\ arc_image = "array2d"
  /\ arc_fig = 0
  /\ arc_exc = NoValue
  /\ arc_calls = 0
  /\ figures = { }
  /\ has_tostring_rgb = TRUE

BrbIdle ==
  /\ pc = "idle"
  /\ batch_index = << >>
  /\ batch_df = << >>
  /\ entry_table = Absent
  /\ tables = [ input |-> Absent, output |-> Absent, result |-> Absent ]
  /\ request_json = FALSE
  /\ response = NoValue
  /\ fault = NoFault
  /\ run_result = [ status |-> "none", exc |-> NoValue, rows |-> NoValue ]
  /\ trace = << >>
  /\ missing_at_cleanup = { }

\* One call of batch_data_create on any arguments: the state on entry,
\* after line 238.
InitAssemble ==
  /\ bdc_pc = "loop"
  /\ bdc_args \in BdcArgs(Elements, MaxParts)
  /\ bdc_i = 1
  /\ dyna_prompt_part = FreshParts(<< >>)
  /\ bdc_result = NoResult
  /\ bdc_first = [ args |-> NoValue, result |-> NoResult ]
  /\ ScIdle /\ ArcIdle /\ BrbIdle

NextAssemble ==
  \/ BdcLoopStr /\ UNCHANGED <<scVars, arcVars, brbVars>>
  \/ BdcLoopToDict /\ UNCHANGED <<scVars, arcVars, brbVars>>
  \/ BdcLoopRaise /\ UNCHANGED <<scVars, arcVars, brbVars>>
  \/ BdcReturn /\ UNCHANGED <<scVars, arcVars, brbVars>>

SpecAssemble == InitAssemble /\ [][NextAssemble]_vars

\* Call after call of batch_data_create, the first completed one kept.
RepeatElements == { [type |-> "str", val |-> "hello"],
                    [type |-> "Part", val |-> "png0"],
                    [type |-> "int", val |-> "42"] }

BdcCallAny == \E args \in BdcArgs(RepeatElements, MaxPartsRepeat) : BdcCall(args)

InitRepeat == BdcInit /\ ScIdle /\ ArcIdle /\ BrbIdle

NextRepeat ==
  \/ BdcCallAny /\ UNCHANGED <<scVars, arcVars, brbVars>>
  \/ BdcLoopStr /\ UNCHANGED <<scVars, arcVars, brbVars>>
  \/ BdcLoopToDict /\ UNCHANGED <<scVars, arcVars, brbVars>>
  \/ BdcLoopRaise /\ UNCHANGED <<scVars, arcVars, brbVars>>
  \/ BdcReturn /\ UNCHANGED <<scVars, arcVars, brbVars>>

SpecRepeat == InitRepeat /\ [][NextRepeat]_vars

\* One call of scale_image on any channel.
InitNormalize == ScInit /\ BdcInit /\ ArcIdle /\ BrbIdle

NextNormalize ==
  \/ ScGetLimits /\ UNCHANGED <<bdcVars, arcVars, brbVars>>
  \/ ScClip /\ UNCHANGED <<bdcVars, arcVars, brbVars>>
  \/ ScScale /\ UNCHANGED <<bdcVars, arcVars, brbVars>>
  \/ ScReturn /\ UNCHANGED <<bdcVars, arcVars, brbVars>>

SpecNormalize == InitNormalize /\ [][NextNormalize]_vars

\* Calls of add_red_circle, one after the other.
InitAnnotate == ArcInit /\ BdcInit /\ ScIdle /\ BrbIdle

NextAnnotate ==
  \/ (\E img \in ImageKinds : ArcCall(img)) /\ UNCHANGED <<bdcVars, scVars, brbVars>>
  \/ ArcStatement /\ UNCHANGED <<bdcVars, scVars, brbVars>>
  \/ ArcRaise /\ UNCHANGED <<bdcVars, scVars, brbVars>>
  \/ ArcClose /\ UNCHANGED <<bdcVars, scVars, brbVars>>
  \/ ArcReturn /\ UNCHANGED <<bdcVars, scVars, brbVars>>

SpecAnnotate == InitAnnotate /\ [][NextAnnotate]_vars

\* One call of build_run_batch.
Init == BrbInit /\ BdcInit /\ ScIdle /\ ArcIdle

Next ==
  \/ BrbGetTableFound /\ UNCHANGED <<bdcVars, scVars, arcVars>>
  \/ BrbGetTableNotFound /\ UNCHANGED <<bdcVars, scVars, arcVars>>
  \/ BrbCreateTable /\ UNCHANGED <<bdcVars, scVars, arcVars>>
  \/ BrbBuildRequest /\ UNCHANGED <<bdcVars, scVars, arcVars>>
  \/ BrbBuildEnd /\ UNCHANGED <<bdcVars, scVars, arcVars>>
  \/ BrbLoadStart /\ UNCHANGED <<bdcVars, scVars, arcVars>>
  \/ BrbLoadWait /\ UNCHANGED <<bdcVars, scVars, arcVars>>
  \/ BrbWriteRequest /\ UNCHANGED <<bdcVars, scVars, arcVars>>
  \/ BrbPostAccepted /\ UNCHANGED <<bdcVars, scVars, arcVars>>
  \/ BrbPostRejected /\ UNCHANGED <<bdcVars, scVars, arcVars>>
  \/ BrbJobHandle /\ UNCHANGED <<bdcVars, scVars, arcVars>>
  \/ BrbWaitSucceeded /\ UNCHANGED <<bdcVars, scVars, arcVars>>
  \/ BrbQueryStart /\ UNCHANGED <<bdcVars, scVars, arcVars>>
  \/ BrbQueryResult /\ UNCHANGED <<bdcVars, scVars, arcVars>>
  \/ BrbCloudFailure /\ UNCHANGED <<bdcVars, scVars, arcVars>>
  \/ ExternalRemoval /\ UNCHANGED <<bdcVars, scVars, arcVars>>
  \/ BrbDeleteOutput /\ UNCHANGED <<bdcVars, scVars, arcVars>>
  \/ BrbDeleteInput /\ UNCHANGED <<bdcVars, scVars, arcVars>>
  \/ BrbRemoveFile /\ UNCHANGED <<bdcVars, scVars, arcVars>>
  \/ BrbDownload /\ UNCHANGED <<bdcVars, scVars, arcVars>>

Spec == Init /\ [][Next]_vars

(***************************************************************************)
(* Properties of batch_data_create                                         *)
(***************************************************************************)

BdcEnded == bdc_pc \in { "returned", "raised" }

Supported(e) == e \in TextElements \cup ImageElements

AllSupported(dyna) == \A k \in 1..Len(dyna) : Supported(dyna[k])

\* C1: for a dyna_prompt of text and image elements only, the call returns a
\* payload with one user turn whose parts are as many as the elements, the
\* k-th part made from the k-th element: {"text": s} for the text s, the
\* image's encoded form for an image.
C1_PartsInInputOrder ==
  (BdcEnded /\ AllSupported(bdc_args.dyna_prompt)) =>
    /\ bdc_result.status = "ok"
    /\ Len(bdc_result.payload.contents) = 1
    /\ bdc_result.payload.contents[1].role = "user"
    /\ LET parts == bdc_result.payload.contents[1].parts
           dyna  == bdc_args.dyna_prompt
       IN  /\ Len(parts) = Len(dyna)
           /\ \A k \in 1..Len(dyna) :
                IF dyna[k].type = "str"
                THEN parts[k] = [ text |-> dyna[k].val ]
                ELSE parts[k] = [ inline_data |->
                                   [ mime_type |-> "image/png", data |-> Base64(dyna[k].val) ] ]

C1_Witness ==
  /\ bdc_pc = "returned"
  /\ bdc_args.dyna_prompt = << [type |-> "str", val |-> "hello"],
                               [type |-> "Part", val |-> "png0"],
                               [type |-> "str", val |-> "world"] >>
  /\ Len(bdc_result.payload.contents[1].parts) = 3

\* C2: a dyna_prompt with an element that is neither text nor an image makes
\* the call fail with InvalidPartError and give no payload.
C2_InvalidPartError ==
  (BdcEnded /\ ~AllSupported(bdc_args.dyna_prompt)) =>
    /\ bdc_result.status = "error"
    /\ bdc_result.exc = "InvalidPartError"
    /\ bdc_result.json = << >>

\* C8: a call with the arguments of an earlier call gives what that call
\* gave: the same serialised text, or the same failure.
C8_Deterministic ==
  (BdcEnded /\ bdc_first.result.status # "none" /\ bdc_first.args = bdc_args) =>
    /\ bdc_result.status = bdc_first.result.status
    /\ bdc_result.exc = bdc_first.result.exc
    /\ bdc_result.json = bdc_first.result.json

C8_Witness ==
  /\ bdc_pc = "returned"
  /\ bdc_first.result.status = "ok"
  /\ bdc_first.args = bdc_args
  /\ Len(bdc_args.dyna_prompt) = 2
  /\ bdc_result.json = bdc_first.result.json
  /\ Len(bdc_result.json) > 0

(***************************************************************************)
(* Properties of scale_image                                               *)
(***************************************************************************)

IsValue(x, n) == x.kind = "finite" /\ x.num = n * x.den

InRange(x, lo, hi) == x.kind = "finite" /\ lo * x.den <= x.num /\ x.num <= hi * x.den

\* C3: when the limits are equal, scale_image divides by no zero and gives
\* every pixel of the channel the same finite value.
C3_ConstantChannelFallback ==
  (sc_pc = "returned" /\ vmin = vmax) =>
    /\ sc_warnings = { }
    /\ \A k \in 1..Len(image) : image[k].kind = "finite" /\ image[k] = image[1]

\* C4: when vmin < vmax, every pixel of the result lies in [0, 255], a pixel
\* at or below vmin giving 0 and a pixel at or above vmax giving 255.
C4_OutputWithin0To255 ==
  (sc_pc = "returned" /\ vmin < vmax) =>
    \A k \in 1..Len(image) :
      /\ InRange(image[k], 0, 255)
      /\ sc_input[k] <= vmin => IsValue(image[k], 0)
      /\ sc_input[k] >= vmax => IsValue(image[k], 255)

(***************************************************************************)
(* Properties of add_red_circle                                            *)
(***************************************************************************)

\* C5: between calls of add_red_circle, however each call ended, no figure
\* that a call opened is still open.
C5_NoFigureLeftOpen ==
  arc_pc \in { "idle", "returned", "raised" } => figures = { }

(***************************************************************************)
(* Properties of build_run_batch                                           *)
(***************************************************************************)

Count(e) == Cardinality({ k \in 1..Len(trace) : trace[k] = e })

Before(a, b) ==
  \A k \in 1..Len(trace) : trace[k] = b => \E j \in 1..(k - 1) : trace[j] = a

BrbEnded == pc \in { "returned", "raised" }

\* C6: when a cloud collaborator has reported a failure, build_run_batch ends
\* by raising that very failure, and no collaborator call is made twice.
C6_FailurePropagatedUnmodified ==
  /\ (BrbEnded /\ fault # NoFault) =>
        /\ run_result.status = "error"
        /\ run_result.exc = fault.exc
  /\ \A e \in { "get_table", "create_table", "load started", "job submitted",
                 "job rejected", "query started", "download" } : Count(e) <= 1
  /\ Count("job submitted") + Count("job rejected") <= 1

\* C7: when if_tbl_exists returns, the table exists; a table that was there
\* before is the same table, not created again; and a missing table never
\* ends the call with NotFound.
C7_TableExistsOnReturn ==
  /\ (Len(trace) > 0 /\ trace[Len(trace)] = "if_tbl_exists returned") =>
        /\ tables.input # Absent
        /\ entry_table # Absent => (tables.input = entry_table /\ Count("create_table") = 0)
  /\ (pc = "raised" /\ Count("if_tbl_exists returned") = 0) => run_result.exc # "NotFound"

C7_Witness ==
  /\ Len(trace) > 0
  /\ trace[Len(trace)] = "if_tbl_exists returned"
  /\ entry_table = Absent
  /\ tables.input = "empty"
  /\ Count("create_table") = 1

\* C9: an interim table or request.json found absent by the cleanup raises
\* nothing (a call that ends in an exception after that ends in a
\* collaborator's failure), and after a return the results have been
\* downloaded and none of the three is left.
C9_AbsentTargetIsNoError ==
  /\ (pc = "raised" /\ missing_at_cleanup # { }) => fault # NoFault
  /\ pc = "returned" =>
        /\ run_result.status = "ok"
        /\ run_result.rows = "joined"
        /\ tables.output = Absent
        /\ tables.input = Absent
        /\ ~request_json

C9_Witness ==
  /\ pc = "returned"
  /\ missing_at_cleanup = { "output", "input", "request.json" }
  /\ run_result.rows = "joined"

\* C10: the job is submitted after the load is done, the query is sent after
\* the wait for the job has returned, the interim tables are deleted after
\* the result table is made, the download comes last, and at most one job
\* is submitted.
C10_FixedOrder ==
  /\ Before("load started", "load done")
  /\ Before("load done", "job submitted")
  /\ Before("load done", "job rejected")
  /\ Before("job submitted", "job done")
  /\ Before("job done", "query started")
  /\ Before("query started", "result table created")
  /\ Before("result table created", "delete_output")
  /\ Before("delete_output", "delete_input")
  /\ Before("delete_input", "remove_file")
  /\ Before("remove_file", "download")
  /\ Count("download") = 1 => trace[Len(trace)] = "download"
  /\ Count("job submitted") + Count("job rejected") <= 1

C10_Witness ==
  /\ pc = "returned"
  /\ Len(batch_df) = MaxBatch
  /\ Count("job submitted") = 1
  /\ trace[Len(trace)] = "download"

====
